---- MODULE Spec2Model ----
(***************************************************************************)
(* The two Go-file simplifiers of the repository, aggressive_simplify      *)
(* (src/aggressive_simplify.py) and simplify_go_file                       *)
(* (src/simplify_files.py), as one state machine over the text of a file.  *)
(*                                                                         *)
(* A text is a sequence of characters; a character is a one-character      *)
(* string.  The box-drawing characters of the cleanup pattern have no      *)
(* ASCII spelling and are written by their code point ("U+2550").          *)
(***************************************************************************)
EXTENDS Integers, Sequences, FiniteSets, TLC

VARIABLES
    prog,              \* which script runs on the file
    pc,                \* the statement the script is at
    runs,              \* how many times the script has been started on the file
    file,              \* the text stored at file_path
    original_content,  \* the text read from the file at the start of this run
    content,           \* the local `content`
    lines,             \* the local `lines`
    new_lines,         \* aggressive_simplify: the local `new_lines`
    i,                 \* the line index of the loop over `lines`
    main_match,        \* aggressive_simplify: the local `main_match`
    start,             \* aggressive_simplify: the local `start`
    brace_count,       \* aggressive_simplify: the local `brace_count`
    pos,               \* aggressive_simplify: the local `pos`
    found_end,         \* aggressive_simplify: the local `found_end`
    skip_section,      \* simplify_go_file: the local `skip_section`
    filtered_lines,    \* simplify_go_file: the local `filtered_lines`
    returned,          \* the value the function returned ("none" while running)
    mode,              \* how the file at file_path can be opened: "rw", "r", "none"
    dir,               \* main(): the files of base_path, by name: text and mode
    detailed_files,    \* main(): the local `detailed_files`
    remaining,         \* main(): the files the for loop has yet to come to
    file_path,         \* main(): the loop variable `file_path`
    updated,           \* main() of simplify_files.py: the local `updated`
    printed,           \* main(): what it has printed
    mpc                \* the statement main() is at ("none": main() is not running)

\* The state of main().
mainVars == <<mode, dir, detailed_files, remaining, file_path, updated, printed, mpc>>

vars == <<prog, pc, runs, file, original_content, content, lines, new_lines, i,
          main_match, start, brace_count, pos, found_end, skip_section,
          filtered_lines, returned, mainVars>>

(***************************************************************************)
(* Python's str operations, on sequences of characters.                    *)
(***************************************************************************)

\* A string literal as a sequence of characters.
Chars(s) == [k \in 1..Len(s) |-> SubSeq(s, k, k)]

\* The characters str.strip() and the pattern \s treat as white space.
Whitespace == {" ", "\t", "\n", "\r", "\f"}

\* s.startswith(p)
StartsWith(s, p) == Len(p) <= Len(s) /\ SubSeq(s, 1, Len(p)) = p

\* p in s
Contains(s, p) ==
    \E k \in 1..(Len(s) - Len(p) + 1) : SubSeq(s, k, k + Len(p) - 1) = p

\* The least and the greatest number of a non-empty set of numbers.
Min(S) == CHOOSE m \in S : \A n \in S : m <= n
Max(S) == CHOOSE m \in S : \A n \in S : n <= m

\* The value of a set of one value: The({e(x) : x \in {v}}) is e(v), with v
\* worked out once however often e uses it.
The(S) == CHOOSE v \in S : TRUE

\* The pieces of s between the line breaks at the positions `breaks`.
SplitAt(s, breaks) ==
    LET \* the position of the j-th line break; 0 and Len(s) + 1 bound the text
        Break(j) == IF j = 0 THEN 0
                    ELSE IF j > Cardinality(breaks) THEN Len(s) + 1
                    ELSE CHOOSE k \in breaks : Cardinality({b \in breaks : b < k}) = j - 1
    IN  [j \in 1..(Cardinality(breaks) + 1) |-> SubSeq(s, Break(j - 1) + 1, Break(j) - 1)]

\* s.split('\n'): the pieces between the line breaks, at least one piece.
Split(s) == The({SplitAt(s, breaks) : breaks \in {{k \in 1..Len(s) : s[k] = "\n"}}})

\* s.strip()
Strip(s) ==
    LET solid == {k \in 1..Len(s) : s[k] \notin Whitespace}
    IN  IF solid = {} THEN <<>> ELSE SubSeq(s, Min(solid), Max(solid))

\* '\n'.join(ls)
RECURSIVE Join(_)
Join(ls) ==
    IF Len(ls) = 0 THEN <<>>
    ELSE IF Len(ls) = 1 THEN ls[1]
    ELSE ls[1] \o <<"\n">> \o Join(Tail(ls))

(***************************************************************************)
(* Python's re module, for the patterns the scripts use.  A pattern is a   *)
(* sequence of items, matched left to right with backtracking:             *)
(*   Lit(s)                 the characters of s                            *)
(*   Rep(neg, set, lo, hi, lazy)                                           *)
(*                          lo to hi (hi = -1: any number of) characters   *)
(*                          in `set` (neg: not in `set`), as many as       *)
(*                          possible first, or with lazy as few            *)
(*   Alt(ss)                one of the literals ss, tried in order         *)
(*   Bol                    ^ under re.MULTILINE                           *)
(* The match of a pattern at a position is the first one the backtracking  *)
(* search finds.  It is computed here item by item from the last item to   *)
(* the first, as the table of where the match of the items k.. ends from   *)
(* each position of the text, so that no position is matched twice.        *)
(***************************************************************************)
Lit(s) == [k |-> "lit", s |-> Chars(s)]
Rep(neg, set, lo, hi, lazy) ==
    [k |-> "rep", neg |-> neg, set |-> set, lo |-> lo, hi |-> hi, lazy |-> lazy]
Alt(ss) == [k |-> "alt", ss |-> ss]
Bol == [k |-> "bol"]

InClass(it, c) == IF it.neg THEN c \notin it.set ELSE c \in it.set

\* A function on 1..n as a tuple of its values.
Table(f, n) == SubSeq(f, 1, n)

\* For each position of t, how many characters from it on are in the class of
\* the repetition `it`, up to it.hi; `stops` are the positions of the
\* characters outside the class, and the position after the end of t.
RunsTo(it, t, stops) ==
    LET n == Len(t)
        Stop(p) == Min({q \in stops : q > p})
        Capped(m) == IF it.hi >= 0 /\ m > it.hi THEN it.hi ELSE m
    IN  Table([p \in 1..(n + 1) |-> IF p \in stops THEN 0 ELSE Capped(Stop(p) - p)],
              n + 1)

\* The table of the runs of the repetition `it` in t.
RunTable(it, t) ==
    The({RunsTo(it, t, stops) :
           stops \in {{q \in 1..Len(t) : ~InClass(it, t[q])} \cup {Len(t) + 1}}})

LitAt(t, p, s) == p + Len(s) - 1 <= Len(t) /\ SubSeq(t, p, p + Len(s) - 1) = s

\* The table of the items k.. of a pattern from `rest`, the table of the items
\* after its first item `it`.
ItemTable(it, rest, t) ==
    LET n == Len(t) IN
    CASE it.k = "bol" ->
           Table([p \in 1..(n + 1) |->
                    IF p = 1 \/ t[p - 1] = "\n" THEN rest[p] ELSE 0], n + 1)
      [] it.k = "lit" ->
           Table([p \in 1..(n + 1) |->
                    IF LitAt(t, p, it.s) THEN rest[p + Len(it.s)] ELSE 0], n + 1)
      [] it.k = "alt" ->
           \* the first alternative, in the order written, that lets the rest match
           Table([p \in 1..(n + 1) |->
                    LET ok == {a \in 1..Len(it.ss) :
                                 /\ LitAt(t, p, Chars(it.ss[a]))
                                 /\ rest[p + Len(it.ss[a])] # 0}
                    IN  IF ok = {} THEN 0 ELSE rest[p + Len(it.ss[Min(ok)])]], n + 1)
      [] it.k = "rep" ->
           \* the most (lazy: the fewest) repetitions that let the rest match
           The({Table([p \in 1..(n + 1) |->
                         LET ok == {m \in matching : p + it.lo <= m /\ m <= p + run[p]}
                         IN  IF ok = {} THEN 0
                             ELSE rest[IF it.lazy THEN Min(ok) ELSE Max(ok)]], n + 1) :
                  run \in {RunTable(it, t)},
                  matching \in {{m \in 1..(n + 1) : rest[m] # 0}}})

\* For each position p of t (and the position after its end), the position
\* after the match of the items k.. of re at p; 0: they do not match at p.
\* Each table is computed once and handed on as a value.
RECURSIVE EndTable(_, _, _)
EndTable(re, k, t) ==
    IF k > Len(re) THEN Table([p \in 1..(Len(t) + 1) |-> p], Len(t) + 1)
    ELSE The({ItemTable(re[k], rest, t) : rest \in {EndTable(re, k + 1, t)}})

\* The leftmost match at or after position `from`, given the pattern's table
\* of ends: <<start, end>> as 0-based offsets like m.start() and m.end(), or
\* <<>> when there is none.
SearchFrom(ends, from) ==
    LET starts == {s \in from..Len(ends) : ends[s] # 0} IN
    IF starts = {} THEN <<>> ELSE <<Min(starts) - 1, ends[Min(starts)] - 1>>

\* re.search(re, t)
Search(re, t) == The({SearchFrom(ends, 1) : ends \in {EndTable(re, 1, t)}})

\* re.match(re, t) is not None
Match(re, t) == EndTable(re, 1, t)[1] # 0

\* re.sub(re, repl, t), for patterns that match no empty string: every
\* leftmost non-overlapping match is replaced.
RECURSIVE SubFrom(_, _, _, _)
SubFrom(ends, repl, t, from) ==
    LET m == SearchFrom(ends, from) IN
    IF m = <<>> THEN SubSeq(t, from, Len(t))
    ELSE SubSeq(t, from, m[1]) \o repl \o SubFrom(ends, repl, t, m[2] + 1)

Sub(re, repl, t) ==
    The({SubFrom(ends, Chars(repl), t, 1) : ends \in {EndTable(re, 1, t)}})

(***************************************************************************)
(* The patterns of the two scripts.                                        *)
(***************************************************************************)
Digits == {"0", "1", "2", "3", "4", "5", "6", "7", "8", "9"}
Upper == {"A", "B", "C", "D", "E", "F", "G", "H", "I", "J", "K", "L", "M",
          "N", "O", "P", "Q", "R", "S", "T", "U", "V", "W", "X", "Y", "Z"}
AnyLazy == Rep(TRUE, {}, 0, -1, TRUE)              \* .*? under re.DOTALL
Equals50 == Rep(FALSE, {"="}, 50, -1, FALSE)       \* ={50,}

\* r'^package main' under re.MULTILINE
PackageRe == <<Bol, Lit("package main")>>

\* r'^[/=\s_-]{30,}'
SeparatorChars == {"/", "=", "_", "-"} \cup Whitespace
DecorativeRe == <<Rep(FALSE, SeparatorChars, 30, -1, FALSE)>>

\* The pattern without the opening brace of the header.
MainReNoBrace == <<Lit("func main()")>>

\* r'func main\(\) \{'
MainRe == <<Lit("func main() {")>>

\* r'\n{3,}'
BlankRunRe == <<Rep(FALSE, {"\n"}, 3, -1, FALSE)>>

\* The character class of Step 5 of aggressive_simplify, and its pattern.
BoxChars == {"U+2554", "U+255A", "U+2551", "U+255D", "U+2550", "U+255E",
             "U+2561", "U+2564", "U+256A", "U+255F", "U+2562"}
BoxRe == <<Rep(FALSE, BoxChars, 2, -1, FALSE)>>

\* r'/\*\n[^*]*DEEP DIVE[^*]*\*/'
DeepDiveRe == <<Lit("/*\n"), Rep(TRUE, {"*"}, 0, -1, FALSE), Lit("DEEP DIVE"),
                Rep(TRUE, {"*"}, 0, -1, FALSE), Lit("*/")>>

\* r'// ={50,}.*?={50,}\n// [A-Z].*?\n// ={50,}.*?={50,}\n' under re.DOTALL
SectionHeaderRe ==
    <<Lit("// "), Equals50, AnyLazy, Equals50, Lit("\n// "),
      Rep(FALSE, Upper, 1, 1, FALSE), AnyLazy, Lit("\n// "),
      Equals50, AnyLazy, Equals50, Lit("\n")>>

\* r'func (closure|recursion|pointer|function)Example\d+\(\)'
ExampleNameRe ==
    <<Lit("func "), Alt(<<"closure", "recursion", "pointer", "function">>),
      Lit("Example"), Rep(FALSE, Digits, 1, -1, FALSE), Lit("()")>>

\* r'fmt\.Println\("\\n=== Example \d+: [^"]+==="\)'
PrintlnRe ==
    <<Lit("fmt.Println(\"\\n=== Example "), Rep(FALSE, Digits, 1, -1, FALSE),
      Lit(": "), Rep(TRUE, {"\""}, 1, -1, FALSE), Lit("===\")")>>

(***************************************************************************)
(* The files the scripts are run on: every text of up to a bounded number  *)
(* of lines, each line drawn from a small set of lines.  Each family holds *)
(* the lines that exercise one part of the scripts.                        *)
(***************************************************************************)
MaxScanLines == 4
MaxCommentLines == 5
MaxFilterLines == 3
MaxBoxLines == 4
MaxSkipLines == 4
MaxHeaderLines == 4
MaxBannerLines == 4
MaxRegexLines == 3
MaxRelabelLines == 3
MaxRuns == 2

Repeat(c, n) == [k \in 1..n |-> c]

Texts(kinds, n) == UNION {{Join(ls) : ls \in [1..m -> kinds]} : m \in 1..n}

\* Braces around and inside main().
ScanKinds ==
    {Chars("func main() {"), Chars("func main()"), Chars("{"), Chars("}"),
     Chars("} x")}

\* Comment blocks, opened, closed and on one line.
CommentKinds == {Chars("/*"), Chars("*/"), Chars("x"), Chars(" /* c */")}

\* Separator lines at and around the length of 30, and Example lines.
FilterKinds ==
    {Repeat("=", 30), Repeat("=", 29), Repeat(" ", 30) \o Chars("x := 1"),
     Chars("// Example 1"), Chars("func Example1() {"), Chars("/*"), Chars("*/")}

\* Blank lines and box-drawing characters.
BoxKinds == {<<>>, <<"U+2550", "U+2550">>, <<"U+2551">>, Chars("a")}

\* Section markers and function headers.
SkipKinds ==
    {Chars("// KEY TAKEAWAYS"), Chars("COMPREHENSIVE GUIDE"), Chars("  func f() {"),
     Chars("func g() { // KEY TAKEAWAYS"), Chars("x")}

\* Blank lines and package declarations.
HeaderKinds == {<<>>, Chars("package main"), Chars("package mainframe"), Chars("x")}

\* Text for the patterns of Steps 2 to 4 of simplify_go_file.
RegexKinds ==
    {Chars("/*"), Chars("DEEP DIVE"), Chars("*/"),
     Chars("func closureExample1() {"),
     Chars("fmt.Println(\"\\n=== Example 1: a ===\")")}
BannerKinds == {Chars("// ") \o Repeat("=", 100), Chars("// Title"), <<>>}

\* Package declarations and a header of main(), plain and with box-drawing
\* characters in them.
RelabelKinds ==
    {Chars("package main"), Chars("package mainframe"),
     <<"U+2550", "U+2550">> \o Chars("package main"),
     Chars("func ma") \o <<"U+2550", "U+2550">> \o Chars("in() {"),
     Chars("}"), Chars("x")}

AggressiveFiles ==
    Texts(ScanKinds, MaxScanLines) \cup Texts(CommentKinds, MaxCommentLines)
      \cup Texts(FilterKinds, MaxFilterLines) \cup Texts(BoxKinds, MaxBoxLines)
      \cup Texts(RelabelKinds, MaxRelabelLines)

SimplifyFiles ==
    Texts(SkipKinds, MaxSkipLines) \cup Texts(HeaderKinds, MaxHeaderLines)
      \cup Texts(RegexKinds, MaxRegexLines) \cup Texts(BannerKinds, MaxBannerLines)

Init ==
    /\ \/ prog = "aggressive_simplify" /\ file \in AggressiveFiles
       \/ prog = "simplify_go_file" /\ file \in SimplifyFiles
    /\ pc = "read"
    /\ runs = 1
    /\ original_content = <<>>
    /\ content = <<>>
    /\ lines = <<>>
    /\ new_lines = <<>>
    /\ i = 0
    /\ main_match = <<>>
    /\ start = 0
    /\ brace_count = 0
    /\ pos = 0
    /\ found_end = FALSE
    /\ skip_section = FALSE
    /\ filtered_lines = <<>>
    /\ returned = "none"
    /\ mode = "rw"
    /\ dir = <<>>
    /\ detailed_files = <<>>
    /\ remaining = <<>>
    /\ file_path = 0
    /\ updated = 0
    /\ printed = <<>>
    /\ mpc = "none"

(***************************************************************************)
(* aggressive_simplify                                                     *)
(***************************************************************************)
AggAt(l) == prog = "aggressive_simplify" /\ pc = l

\* with open(file_path, 'r') as f: content = f.read()
AggRead ==
    /\ AggAt("read")
    /\ mode # "none"
    /\ content' = file
    /\ original_content' = file
    /\ pc' = "relabel"
    /\ UNCHANGED <<mainVars, prog, runs, file, lines, new_lines, i, main_match, start,
                   brace_count, pos, found_end, skip_section, filtered_lines,
                   returned>>

\* Step 1: Change package to intermediate
AggRelabel ==
    /\ AggAt("relabel")
    /\ content' = Sub(PackageRe, "package intermediate", content)
    /\ pc' = "split"
    /\ UNCHANGED <<mainVars, prog, runs, file, original_content, lines, new_lines, i,
                   main_match, start, brace_count, pos, found_end, skip_section,
                   filtered_lines, returned>>

\* lines = content.split('\n'); new_lines = []; i = 0
AggSplit ==
    /\ AggAt("split")
    /\ lines' = Split(content)
    /\ new_lines' = <<>>
    /\ i' = 0
    /\ pc' = "filter"
    /\ UNCHANGED <<mainVars, prog, runs, file, original_content, content, main_match, start,
                   brace_count, pos, found_end, skip_section, filtered_lines,
                   returned>>

\* lines[i], the line the filter loop is at (the model's sequences are 1-based)
Line == lines[i + 1]

\* line.strip().startswith('/*')
OpensComment(line) == StartsWith(Strip(line), Chars("/*"))

\* The inner loop that gives up a block it finds no end of: when the lines run
\* out, the block is the opening line alone and the filter goes on after it.
RECURSIVE CollectCommentGivesUp(_, _, _)
CollectCommentGivesUp(ls, comment_lines, k) ==
    IF k < Len(ls)
    THEN LET more == Append(comment_lines, ls[k + 1]) IN
         IF Contains(ls[k + 1], Chars("*/"))
         THEN [comment_lines |-> more, i |-> k]
         ELSE CollectCommentGivesUp(ls, more, k + 1)
    ELSE [comment_lines |-> <<comment_lines[1]>>, i |-> k - Len(comment_lines)]

\* The inner loop that collects a comment block: from comment_lines and i it
\* appends lines until one contains '*/' (break) or the lines run out.
RECURSIVE CollectComment(_, _, _)
CollectComment(ls, comment_lines, k) ==
    IF k < Len(ls)
    THEN LET more == Append(comment_lines, ls[k + 1]) IN
         IF Contains(ls[k + 1], Chars("*/"))
         THEN [comment_lines |-> more, i |-> k]
         ELSE CollectComment(ls, more, k + 1)
    ELSE [comment_lines |-> comment_lines, i |-> k]

\* The threshold one line higher.
KeepCommentUpTo4(comment_lines) == Len(comment_lines) < 5

\* if len(comment_lines) < 4
KeepComment(comment_lines) == Len(comment_lines) < 4

\* if re.match(r'^[/=\s_-]{30,}', line)
IsDecorative(line) == Match(DecorativeRe, line)

\* The test without its exception for function headers.
IsExampleLineAlways(line) == Contains(line, Chars("Example"))

\* if 'Example' in line and 'func ' not in line
IsExampleLine(line) ==
    Contains(line, Chars("Example")) /\ ~Contains(line, Chars("func "))

AggLoop(next_new_lines, next_i) ==
    /\ new_lines' = next_new_lines
    /\ i' = next_i
    /\ UNCHANGED <<mainVars, prog, pc, runs, file, original_content, content, lines,
                   main_match, start, brace_count, pos, found_end, skip_section,
                   filtered_lines, returned>>

\* The filter loop at a line that opens a comment block.
AggCommentBlock ==
    /\ AggAt("filter") /\ i < Len(lines)
    /\ OpensComment(Line)
    /\ LET c == CollectComment(lines, <<Line>>, i + 1) IN
       AggLoop(IF KeepComment(c.comment_lines)
               THEN new_lines \o c.comment_lines ELSE new_lines,
               c.i + 1)

\* The filter loop at a decorative separator line.
AggDecorative ==
    /\ AggAt("filter") /\ i < Len(lines)
    /\ ~OpensComment(Line)
    /\ IsDecorative(Line)
    /\ AggLoop(new_lines, i + 1)

\* The filter loop at an example header line.
AggExample ==
    /\ AggAt("filter") /\ i < Len(lines)
    /\ ~OpensComment(Line)
    /\ ~IsDecorative(Line)
    /\ IsExampleLine(Line)
    /\ AggLoop(new_lines, i + 1)

\* The filter loop at any other line.
AggKeep ==
    /\ AggAt("filter") /\ i < Len(lines)
    /\ ~OpensComment(Line)
    /\ ~IsDecorative(Line)
    /\ ~IsExampleLine(Line)
    /\ AggLoop(Append(new_lines, Line), i + 1)

\* The filter loop ends: content = '\n'.join(new_lines)
AggJoin ==
    /\ AggAt("filter") /\ i >= Len(lines)
    /\ content' = Join(new_lines)
    /\ pc' = "search"
    /\ UNCHANGED <<mainVars, prog, runs, file, original_content, lines, new_lines, i,
                   main_match, start, brace_count, pos, found_end, skip_section,
                   filtered_lines, returned>>

\* The count started at the header's own opening brace.
InitialCountOfHeader == 0 + 1

\* brace_count = 0
InitialCount == 0

\* Step 3: main_match = re.search(r'func main\(\) \{', content), and the
\* locals set when it is found.
AggSearch ==
    /\ AggAt("search")
    /\ LET m == Search(MainRe, content) IN
       /\ main_match' = m
       /\ IF m # <<>>
          THEN /\ start' = m[1]
               /\ brace_count' = InitialCount
               /\ pos' = m[2]
               /\ found_end' = FALSE
               /\ pc' = "scan"
          ELSE /\ pc' = "collapse"
               /\ UNCHANGED <<start, brace_count, pos, found_end>>
    /\ UNCHANGED <<mainVars, prog, runs, file, original_content, content, lines, new_lines,
                   i, skip_section, filtered_lines, returned>>

\* content[pos], the character the scan is at
Char == content[pos + 1]

\* The test without the depth: any closing brace ends the scan.
ClosesMainAnyDepth == Char = "}"

\* The test off by one: a closing brace one level down ends the scan too.
ClosesMainOffByOne == Char = "}" /\ brace_count <= 1

\* elif content[pos] == '}': if brace_count == 0
ClosesMain == Char = "}" /\ brace_count = 0

\* One iteration of the scan that does not end it: the brace count after it.
CountAfter ==
    IF Char = "{" THEN brace_count + 1
    ELSE IF Char = "}" THEN brace_count - 1
    ELSE brace_count

\* content[:pos+1]
Truncated == SubSeq(content, 1, pos + 1)

\* The scan at a character that is not the closing brace of main().
AggScanStep ==
    /\ AggAt("scan") /\ pos < Len(content)
    /\ ~ClosesMain
    /\ brace_count' = CountAfter
    /\ pos' = pos + 1
    /\ UNCHANGED <<mainVars, prog, pc, runs, file, original_content, content, lines,
                   new_lines, i, main_match, start, found_end, skip_section,
                   filtered_lines, returned>>

\* The scan at the closing brace of main(): truncate and break.
AggScanClose ==
    /\ AggAt("scan") /\ pos < Len(content)
    /\ ClosesMain
    /\ found_end' = TRUE
    /\ content' = Truncated
    /\ pc' = "collapse"
    /\ UNCHANGED <<mainVars, prog, runs, file, original_content, lines, new_lines, i,
                   main_match, start, brace_count, pos, skip_section,
                   filtered_lines, returned>>

\* The scan runs out of characters.
AggScanEnd ==
    /\ AggAt("scan") /\ pos >= Len(content)
    /\ pc' = "collapse"
    /\ UNCHANGED <<mainVars, prog, runs, file, original_content, content, lines, new_lines,
                   i, main_match, start, brace_count, pos, found_end,
                   skip_section, filtered_lines, returned>>

\* Step 4: Remove multiple consecutive blank lines
AggCollapse ==
    /\ AggAt("collapse")
    /\ content' = Sub(BlankRunRe, "\n\n", content)
    /\ pc' = "cleanup"
    /\ UNCHANGED <<mainVars, prog, runs, file, original_content, lines, new_lines, i,
                   main_match, start, brace_count, pos, found_end, skip_section,
                   filtered_lines, returned>>

\* Step 5: Clean up remaining decorative characters
AggCleanup ==
    /\ AggAt("cleanup")
    /\ content' = Sub(BoxRe, "", content)
    /\ pc' = "write"
    /\ UNCHANGED <<mainVars, prog, runs, file, original_content, lines, new_lines, i,
                   main_match, start, brace_count, pos, found_end, skip_section,
                   filtered_lines, returned>>

\* with open(file_path, 'w') as f: f.write(content); return True
AggWrite ==
    /\ AggAt("write")
    /\ mode = "rw"
    /\ file' = content
    /\ returned' = TRUE
    /\ pc' = "done"
    /\ UNCHANGED <<mainVars, prog, runs, original_content, content, lines, new_lines, i,
                   main_match, start, brace_count, pos, found_end, skip_section,
                   filtered_lines>>

(***************************************************************************)
(* simplify_go_file                                                        *)
(***************************************************************************)
SimpAt(l) == prog = "simplify_go_file" /\ pc = l

\* A step of simplify_go_file that only rewrites `content`.
SimpRewrite(from, to, text) ==
    /\ SimpAt(from)
    /\ content' = text
    /\ pc' = to
    /\ UNCHANGED <<mainVars, prog, runs, file, original_content, lines, new_lines, i,
                   main_match, start, brace_count, pos, found_end, skip_section,
                   filtered_lines, returned>>

\* content = f.read(); original_content = content
SimpRead ==
    /\ SimpAt("read")
    /\ mode # "none"
    /\ content' = file
    /\ original_content' = file
    /\ pc' = "relabel"
    /\ UNCHANGED <<mainVars, prog, runs, file, lines, new_lines, i, main_match, start,
                   brace_count, pos, found_end, skip_section, filtered_lines,
                   returned>>

\* Step 1: Change package declaration to intermediate
SimpRelabel ==
    SimpRewrite("relabel", "deepdive", Sub(PackageRe, "package intermediate", content))

\* Step 2: Remove verbose multi-line comment blocks
SimpDeepDive == SimpRewrite("deepdive", "banners", Sub(DeepDiveRe, "", content))

\* Remove elaborate section headers
SimpBanners == SimpRewrite("banners", "names", Sub(SectionHeaderRe, "", content))

\* lambda m: 'func example()' if 'Example' not in m.group(0) else m.group(0)
ExampleNameRepl(m) ==
    IF ~Contains(m, Chars("Example")) THEN Chars("func example()") ELSE m

\* re.sub(ExampleNameRe, <the lambda>, t)
RECURSIVE SubExampleNames(_, _, _)
SubExampleNames(ends, t, from) ==
    LET m == SearchFrom(ends, from) IN
    IF m = <<>> THEN SubSeq(t, from, Len(t))
    ELSE SubSeq(t, from, m[1]) \o ExampleNameRepl(SubSeq(t, m[1] + 1, m[2]))
           \o SubExampleNames(ends, t, m[2] + 1)

\* Step 3: Simplify example function names
SimpNames ==
    SimpRewrite("names", "println",
                The({SubExampleNames(ends, content, 1) :
                       ends \in {EndTable(ExampleNameRe, 1, content)}}))

\* Step 4: Remove overly verbose fmt.Println headers for examples
SimpPrintln == SimpRewrite("println", "split", Sub(PrintlnRe, "", content))

\* Step 5: lines = content.split('\n'); filtered_lines = []; skip_section = False
SimpSplit ==
    /\ SimpAt("split")
    /\ lines' = Split(content)
    /\ filtered_lines' = <<>>
    /\ skip_section' = FALSE
    /\ i' = 0
    /\ pc' = "skip"
    /\ UNCHANGED <<mainVars, prog, runs, file, original_content, content, new_lines,
                   main_match, start, brace_count, pos, found_end, returned>>

\* 'KEY TAKEAWAYS' in line or 'COMPREHENSIVE GUIDE' in line
IsMarker(line) ==
    Contains(line, Chars("KEY TAKEAWAYS")) \/ Contains(line, Chars("COMPREHENSIVE GUIDE"))

\* line.strip().startswith('func ')
OpensFunc(line) == StartsWith(Strip(line), Chars("func "))

\* The two branches in the other order: a function header ends the section
\* before the markers are looked for.
SkipAfterFuncFirst(skip, line) ==
    IF skip /\ OpensFunc(line) THEN FALSE
    ELSE IF IsMarker(line) THEN TRUE
    ELSE skip

\* skip_section after the if/elif of the loop body at `line`
SkipAfter(skip, line) ==
    IF IsMarker(line) THEN TRUE
    ELSE IF skip /\ OpensFunc(line) THEN FALSE
    ELSE skip

\* One iteration of: for i, line in enumerate(lines)
SimpLoop ==
    /\ SimpAt("skip") /\ i < Len(lines)
    /\ skip_section' = SkipAfter(skip_section, Line)
    /\ filtered_lines' = IF ~skip_section' THEN Append(filtered_lines, Line)
                         ELSE filtered_lines
    /\ i' = i + 1
    /\ UNCHANGED <<mainVars, prog, pc, runs, file, original_content, content, lines,
                   new_lines, main_match, start, brace_count, pos, found_end,
                   returned>>

\* The loop ends: content = '\n'.join(filtered_lines)
SimpJoin ==
    /\ SimpAt("skip") /\ i >= Len(lines)
    /\ content' = Join(filtered_lines)
    /\ pc' = "collapse"
    /\ UNCHANGED <<mainVars, prog, runs, file, original_content, lines, new_lines, i,
                   main_match, start, brace_count, pos, found_end, skip_section,
                   filtered_lines, returned>>

\* Step 6: Clean up multiple blank lines
SimpCollapse == SimpRewrite("collapse", "header", Sub(BlankRunRe, "\n\n", content))

\* The header put in front of every text.
WithHeaderAlways(text) == Chars("package intermediate\n\n") \o text

\* Step 7: Add simple header comment if missing
WithHeader(text) ==
    IF ~StartsWith(text, Chars("package"))
    THEN Chars("package intermediate\n\n") \o text
    ELSE text

SimpHeader == SimpRewrite("header", "write", WithHeader(content))

\* Step 8 changes nothing (pass).  Only write if significantly changed.
SimpWrite ==
    /\ SimpAt("write")
    /\ content # original_content => mode = "rw"
    /\ IF content # original_content
       THEN file' = content /\ returned' = TRUE
       ELSE file' = file /\ returned' = FALSE
    /\ pc' = "done"
    /\ UNCHANGED <<mainVars, prog, runs, original_content, content, lines, new_lines, i,
                   main_match, start, brace_count, pos, found_end, skip_section,
                   filtered_lines>>

(***************************************************************************)
(* The script is started again on the file it left (main() of either       *)
(* script processes whatever the directory holds each time it is run).     *)
(***************************************************************************)
Rerun ==
    /\ pc = "done"
    /\ runs < MaxRuns
    /\ runs' = runs + 1
    /\ pc' = "read"
    /\ returned' = "none"
    /\ UNCHANGED <<mainVars, prog, file, original_content, content, lines, new_lines, i,
                   main_match, start, brace_count, pos, found_end, skip_section,
                   filtered_lines>>

Next ==
    \/ AggRead \/ AggRelabel \/ AggSplit
    \/ AggCommentBlock \/ AggDecorative \/ AggExample \/ AggKeep \/ AggJoin
    \/ AggSearch \/ AggScanStep \/ AggScanClose \/ AggScanEnd
    \/ AggCollapse \/ AggCleanup \/ AggWrite
    \/ SimpRead \/ SimpRelabel \/ SimpDeepDive \/ SimpBanners \/ SimpNames
    \/ SimpPrintln \/ SimpSplit \/ SimpLoop \/ SimpJoin \/ SimpCollapse
    \/ SimpHeader \/ SimpWrite
    \/ Rerun

Spec == Init /\ [][Next]_vars

(***************************************************************************)
(* main() of either script: the function is called on every file of the   *)
(* directory in turn.  A file that cannot be opened makes open() raise     *)
(* inside the function; the exception reaches the try statement of main(). *)
(***************************************************************************)
MaxFiles == 3

\* The names the files of the directory can have, in their sorting order.
Names == 1..MaxFiles

\* A file that passes through every branch of aggressive_simplify but the end
\* of the scan without a closing brace, and a file that ends in that way.
FullText ==
    Join(<<Chars("package main"), Chars("/*"), Chars("*/"), Repeat("=", 30),
           Chars("// Example 1"), Chars("func main() {"), Chars("}"), Chars("x")>>)
OpenText == Chars("func main() {")

\* The files a directory can hold.
DirFiles ==
    {[text |-> FullText, mode |-> "rw"], [text |-> OpenText, mode |-> "rw"],
     [text |-> FullText, mode |-> "r"], [text |-> FullText, mode |-> "none"],
     [text |-> Chars("package intermediate"), mode |-> "r"]}

\* The directories main() can find: files under some of the names.
Dirs == UNION {[S -> DirFiles] : S \in SUBSET Names}

\* sorted(...): the names in S in increasing order
RECURSIVE Sorted(_)
Sorted(S) == IF S = {} THEN <<>> ELSE <<Min(S)>> \o Sorted(S \ {Min(S)})

BatchInit ==
    /\ prog \in {"aggressive_simplify", "simplify_go_file"}
    /\ dir \in Dirs
    /\ mpc = "start"
    /\ pc = "idle"
    /\ runs = 1
    /\ file = <<>>
    /\ original_content = <<>>
    /\ content = <<>>
    /\ lines = <<>>
    /\ new_lines = <<>>
    /\ i = 0
    /\ main_match = <<>>
    /\ start = 0
    /\ brace_count = 0
    /\ pos = 0
    /\ found_end = FALSE
    /\ skip_section = FALSE
    /\ filtered_lines = <<>>
    /\ returned = "none"
    /\ mode = "rw"
    /\ detailed_files = <<>>
    /\ remaining = <<>>
    /\ file_path = 0
    /\ updated = 0
    /\ printed = <<>>

\* with open(file_path, 'r') as f: content = f.read(): open() or read() raises
OpenReadRaises ==
    /\ pc = "read"
    /\ mode = "none"
    /\ pc' = "raised"
    /\ UNCHANGED <<mainVars, prog, runs, file, original_content, content, lines,
                   new_lines, i, main_match, start, brace_count, pos, found_end,
                   skip_section, filtered_lines, returned>>

\* with open(file_path, 'w') as f: open() raises
OpenWriteRaises ==
    /\ pc = "write"
    /\ mode # "rw"
    /\ prog = "simplify_go_file" => content # original_content
    /\ pc' = "raised"
    /\ UNCHANGED <<mainVars, prog, runs, file, original_content, content, lines,
                   new_lines, i, main_match, start, brace_count, pos, found_end,
                   skip_section, filtered_lines, returned>>

\* A line main() prints: what it says, and of which file (0: of none).
Report(what, name) == [what |-> what, name |-> name]

\* detailed_files = sorted(base_path.glob('*_detailed.go')); print(...); updated = 0
MainStart ==
    /\ mpc = "start"
    /\ detailed_files' = Sorted(DOMAIN dir)
    /\ remaining' = detailed_files'
    /\ updated' = 0
    /\ printed' = Append(printed, Report("found", Len(detailed_files')))
    /\ mpc' = "loop"
    /\ UNCHANGED <<prog, pc, runs, file, original_content, content, lines,
                   new_lines, i, main_match, start, brace_count, pos, found_end,
                   skip_section, filtered_lines, returned, mode, dir, file_path>>

\* for file_path in detailed_files: try: the function is called on the next
\* file, with fresh locals.
MainCall ==
    /\ mpc = "loop"
    /\ remaining # <<>>
    /\ file_path' = Head(remaining)
    /\ remaining' = Tail(remaining)
    /\ file' = dir[Head(remaining)].text
    /\ mode' = dir[Head(remaining)].mode
    /\ pc' = "read"
    /\ mpc' = "call"
    /\ original_content' = <<>>
    /\ content' = <<>>
    /\ lines' = <<>>
    /\ new_lines' = <<>>
    /\ i' = 0
    /\ main_match' = <<>>
    /\ start' = 0
    /\ brace_count' = 0
    /\ pos' = 0
    /\ found_end' = FALSE
    /\ skip_section' = FALSE
    /\ filtered_lines' = <<>>
    /\ returned' = "none"
    /\ UNCHANGED <<prog, runs, dir, detailed_files, updated, printed>>

\* The loop goes on after a call: the locals of the call are gone.
MainLoop(report, count) ==
    /\ dir' = [dir EXCEPT ![file_path].text = file]
    /\ printed' = Append(printed, report)
    /\ updated' = count
    /\ pc' = "idle"
    /\ mpc' = "loop"
    /\ UNCHANGED <<prog, runs, file, original_content, content, lines, new_lines,
                   i, main_match, start, brace_count, pos, found_end,
                   skip_section, filtered_lines, returned, mode, detailed_files,
                   file_path>>

\* aggressive_simplify(str(file_path)) returned; print("Improved: ...")
AggMainReturn ==
    /\ mpc = "call" /\ AggAt("done")
    /\ remaining' = remaining
    /\ MainLoop(Report("improved", file_path), updated)

\* if simplify_go_file(str(file_path)): updated += 1; print("Updated: ...")
\* else: print("Skipped: ...")
SimpMainReturn ==
    /\ mpc = "call" /\ SimpAt("done")
    /\ remaining' = remaining
    /\ IF returned = TRUE
       THEN MainLoop(Report("updated", file_path), updated + 1)
       ELSE MainLoop(Report("skipped", file_path), updated)

\* The except clause swallows every file that is left.
AbortAfterExcept(rest) == <<>>

\* The files the loop goes on with after the except clause: all that are left.
AfterExcept(rest) == rest

\* except Exception as e: print("Error ...")
MainExcept ==
    /\ mpc = "call" /\ pc = "raised"
    /\ remaining' = AfterExcept(remaining)
    /\ MainLoop(Report("error", file_path), updated)

\* The loop is over: print("Complete!") / print("Successfully updated ...")
MainSummary ==
    /\ mpc = "loop"
    /\ remaining = <<>>
    /\ printed' = Append(printed, Report("complete", updated))
    /\ mpc' = "exit"
    /\ UNCHANGED <<prog, pc, runs, file, original_content, content, lines,
                   new_lines, i, main_match, start, brace_count, pos, found_end,
                   skip_section, filtered_lines, returned, mode, dir,
                   detailed_files, remaining, file_path, updated>>

BatchNext ==
    \/ AggRead \/ AggRelabel \/ AggSplit
    \/ AggCommentBlock \/ AggDecorative \/ AggExample \/ AggKeep \/ AggJoin
    \/ AggSearch \/ AggScanStep \/ AggScanClose \/ AggScanEnd
    \/ AggCollapse \/ AggCleanup \/ AggWrite
    \/ SimpRead \/ SimpRelabel \/ SimpDeepDive \/ SimpBanners \/ SimpNames
    \/ SimpPrintln \/ SimpSplit \/ SimpLoop \/ SimpJoin \/ SimpCollapse
    \/ SimpHeader \/ SimpWrite
    \/ OpenReadRaises \/ OpenWriteRaises
    \/ MainStart \/ MainCall \/ AggMainReturn \/ SimpMainReturn \/ MainExcept
    \/ MainSummary

\* main() is one thread that runs each statement after the one before it.
BatchSpec == BatchInit /\ [][BatchNext]_vars /\ WF_vars(BatchNext)

(***************************************************************************)
(* The block scanner of aggressive_simplify (Step 3).                      *)
(***************************************************************************)
Header == Chars("func main() {")

\* The text that reaches the scanner: the lines the filter kept, joined.
Filtered == Join(new_lines)

\* The positions of t at which the header occurs.
Headers(t) == {s \in 1..Len(t) : LitAt(t, s, Header)}

\* The first position after the first header of t.
BodyStart(t) == Min(Headers(t)) + Len(Header)

\* How many of the characters a..b of t are c.
Count(t, c, a, b) == Cardinality({q \in a..b : t[q] = c})

\* The closing braces after the first header before which as many braces
\* were opened as closed since the header.
ClosesAtDepth0(t) ==
    {q \in BodyStart(t)..Len(t) :
        /\ t[q] = "}"
        /\ Count(t, "{", BodyStart(t), q - 1) = Count(t, "}", BodyStart(t), q - 1)}

\* The scanner step is over.
Scanned == AggAt("collapse")

\* C1: when the text reaching the scanner holds the header and a closing
\* brace at depth 0 after it, the scanner leaves the prefix of that text that
\* ends with the first such brace: closing braces of inner blocks do not end
\* the scan, and nothing after the chosen brace is kept.
C1_TruncatesAtMatchingClose ==
    (Scanned /\ Headers(Filtered) # {} /\ ClosesAtDepth0(Filtered) # {})
        => content = SubSeq(Filtered, 1, Min(ClosesAtDepth0(Filtered)))

\* The scanner passed the closing brace of an inner block and cut off text
\* after the closing brace of main().
C1_Witness ==
    /\ Scanned /\ Headers(Filtered) # {} /\ ClosesAtDepth0(Filtered) # {}
    /\ Count(Filtered, "}", BodyStart(Filtered), Min(ClosesAtDepth0(Filtered))) >= 2
    /\ Len(content) < Len(Filtered)

\* C2 as claimed: after a successful scan the whole output, from the start of
\* the document, holds as many opening as closing braces.
C2_WholeOutputBalanced ==
    (Scanned /\ Headers(Filtered) # {} /\ ClosesAtDepth0(Filtered) # {})
        => Count(content, "{", 1, Len(content)) = Count(content, "}", 1, Len(content))

\* C2: after a successful scan the output from the first header on (the
\* block of main()) holds as many opening as closing braces.
C2_BlockBalanced ==
    (Scanned /\ Headers(Filtered) # {} /\ ClosesAtDepth0(Filtered) # {})
        => LET s == Min(Headers(Filtered)) IN
           Count(content, "{", s, Len(content)) = Count(content, "}", s, Len(content))

\* A successful scan of a text with a brace before the header, which cut off
\* text after main().
C2_Witness ==
    /\ Scanned /\ found_end
    /\ Count(content, "}", 1, start) >= 1
    /\ Len(content) < Len(Filtered)

\* C3: when the header is found and no closing brace at depth 0 follows it,
\* the scan runs to the end of the text within its bounds and leaves the text
\* as it received it.
C3_UnterminatedUnchanged ==
    /\ AggAt("scan") => pos <= Len(content)
    /\ (Scanned /\ Headers(Filtered) # {} /\ ClosesAtDepth0(Filtered) = {})
          => content = Filtered /\ ~found_end

\* The scan ran out of text inside main(), after an inner block had closed.
C3_Witness ==
    /\ Scanned /\ Headers(Filtered) # {} /\ ClosesAtDepth0(Filtered) = {}
    /\ Count(Filtered, "}", BodyStart(Filtered), Len(Filtered)) >= 1
    /\ pos = Len(content)

\* C4: when the header does not occur in the filtered text, the scanner
\* leaves that text as it is.
C4_NoHeaderIdentity ==
    (Scanned /\ Headers(Filtered) = {}) => content = Filtered

\* A text without the header, with braces and a main() that opens its block
\* on the next line.
C4_Witness ==
    /\ Scanned /\ Headers(Filtered) = {}
    /\ Contains(Filtered, Chars("func main()"))
    /\ Contains(Filtered, Chars("}"))
    /\ content = Filtered

(***************************************************************************)
(* The line filter of aggressive_simplify (Step 2).                        *)
(***************************************************************************)

\* The filter loop is at a line (lines[k], 1-based).
Filtering == AggAt("filter") /\ i < Len(lines)

\* The last line of the comment block that opens at line k of ls: the first
\* following line that contains the closing marker, or the last line of ls.
BlockEnd(ls, k) ==
    LET closing == {j \in (k + 1)..Len(ls) : Contains(ls[j], Chars("*/"))} IN
    IF closing = {} THEN Len(ls) ELSE Min(closing)

ClosesOnOpeningLine(line) ==
    /\ OpensComment(line)
    /\ Contains(SubSeq(Strip(line), 3, Len(Strip(line))), Chars("*/"))

\* C15 as claimed: a comment that opens and closes on one line is a block of
\* that line alone: the filter emits the line, and nothing else in that step,
\* and goes on with the line after it, when there is one.
C15_OneLineCommentIsOneBlock ==
    [][(Filtering /\ ClosesOnOpeningLine(Line)) =>
          /\ new_lines' = Append(new_lines, Line)
          /\ i + 1 < Len(lines) => i' = i + 1]_vars

\* The whole line is a run of at least 30 separator characters.
IsSeparatorRun(line) ==
    Len(line) >= 30 /\ \A q \in 1..Len(line) : line[q] \in SeparatorChars

\* C9 as claimed: a line outside a comment block, which the Example rule
\* does not drop, is dropped if and only if the whole of it is a run of at
\* least 30 separator characters.
C9_DropsOnlySeparatorLines ==
    [][(Filtering /\ ~OpensComment(Line) /\ ~IsExampleLine(Line)) =>
          ((new_lines' = new_lines) <=> IsSeparatorRun(Line))]_vars

\* C10 as claimed: no emitted line contains `Example` without `func `, and a
\* line with both that no other rule removes is emitted as it is.
C10_NoExampleLineEmitted ==
    [][AggAt("filter") =>
          /\ \A k \in 1..Len(new_lines') :
                Contains(new_lines'[k], Chars("Example"))
                   => Contains(new_lines'[k], Chars("func "))
          /\ (/\ Filtering /\ ~OpensComment(Line) /\ ~IsDecorative(Line)
              /\ Contains(Line, Chars("Example")) /\ Contains(Line, Chars("func ")))
                => new_lines' = Append(new_lines, Line)]_vars

\* C10: the filter emits no line outside a comment block that contains
\* `Example` without `func `, and emits as it is every line outside a comment
\* block that contains both and is no separator line.
C10_NoExampleLineOutsideComments ==
    [][(Filtering /\ ~OpensComment(Line)) =>
          /\ (Contains(Line, Chars("Example")) /\ ~Contains(Line, Chars("func ")))
                => new_lines' = new_lines
          /\ (/\ ~IsDecorative(Line)
              /\ Contains(Line, Chars("Example")) /\ Contains(Line, Chars("func ")))
                => new_lines' = Append(new_lines, Line)]_vars

\* The filter dropped an Example line and then kept a function header whose
\* name contains Example.
C10_Witness ==
    /\ AggAt("filter") /\ i = 2
    /\ Contains(lines[1], Chars("Example")) /\ ~Contains(lines[1], Chars("func "))
    /\ Contains(lines[2], Chars("Example")) /\ Contains(lines[2], Chars("func "))
    /\ new_lines = <<lines[2]>>

(***************************************************************************)
(* The text the scripts write.                                             *)
(***************************************************************************)

\* C5 as claimed: aggressive_simplify run on its own output writes that
\* output again.
C5_Idempotent ==
    (AggAt("done") /\ runs >= 2) => file = original_content

\* t holds three blank lines in a row: three line breaks at its start, or
\* four in a row anywhere.
HasBlankRun(t) ==
    \/ StartsWith(t, Chars("\n\n\n"))
    \/ Contains(t, Chars("\n\n\n\n"))

\* C7 as claimed: the text either script writes holds no three blank lines
\* in a row.
C7_NoBlankRunWritten ==
    (pc = "done" /\ returned = TRUE) => ~HasBlankRun(file)

(***************************************************************************)
(* The section-skip pass of simplify_go_file (Step 5).                     *)
(***************************************************************************)

\* The loop over the lines is at a line (lines[i + 1]).
Skipping == SimpAt("skip") /\ i < Len(lines)

\* Line k of ls is in the section of a marker line: from the marker line to
\* the line before the next line that opens a function.
InSection(ls, k) ==
    \E m \in 1..k : IsMarker(ls[m]) /\ \A j \in (m + 1)..k : ~OpensFunc(ls[j])

\* Line k of ls is the line that opens a function next after a marker line.
EndsSection(ls, k) ==
    /\ OpensFunc(ls[k])
    /\ \E m \in 1..(k - 1) :
          IsMarker(ls[m]) /\ \A j \in (m + 1)..(k - 1) : ~OpensFunc(ls[j])

\* C8 as claimed: the lines of a section are omitted, the line that opens a
\* function next after a marker line is emitted, and so is every line
\* outside the sections.
C8_SectionsOmitted ==
    [][Skipping =>
          /\ InSection(lines, i + 1) => filtered_lines' = filtered_lines
          /\ (EndsSection(lines, i + 1) \/ ~InSection(lines, i + 1))
                => filtered_lines' = Append(filtered_lines, Line)]_vars

\* Line k of ls is in the section of a marker line, when a section ends
\* before the next line that opens a function and holds no marker itself.
InSectionToPlainFunc(ls, k) ==
    \E m \in 1..k :
       IsMarker(ls[m]) /\ \A j \in (m + 1)..k : ~(OpensFunc(ls[j]) /\ ~IsMarker(ls[j]))

\* C8: a marker line and the lines after it are omitted up to the next line
\* that opens a function and holds no marker; that line and the lines after
\* it, up to the next marker line, are emitted.
C8_SectionsToPlainFunc ==
    [][Skipping =>
          filtered_lines' = IF InSectionToPlainFunc(lines, i + 1)
                            THEN filtered_lines
                            ELSE Append(filtered_lines, Line)]_vars

\* The pass omitted a marker line and the line after it, and emitted the
\* function header that followed.
C8_Witness ==
    /\ SimpAt("skip") /\ i = 3
    /\ IsMarker(lines[1]) /\ ~OpensFunc(lines[2]) /\ ~IsMarker(lines[2])
    /\ OpensFunc(lines[3]) /\ ~IsMarker(lines[3])
    /\ filtered_lines = <<lines[3]>>

(***************************************************************************)
(* The rewrite of the package declaration (Step 1 of both scripts).        *)
(***************************************************************************)

\* The line as the rewrite is said to leave it.
RelabelLine(line) ==
    IF line = Chars("package main") THEN Chars("package intermediate") ELSE line

\* t with each of its lines rewritten.
RelabelLines(t) ==
    LET ls == Split(t) IN Join(Table([k \in 1..Len(ls) |-> RelabelLine(ls[k])], Len(ls)))

\* C11 as claimed: the rewrite of either script replaces the lines that are
\* exactly `package main` by `package intermediate` and leaves every other
\* line as it is, also a line that goes on after `package main`.
C11_RelabelsExactLines ==
    [][pc = "relabel" => content' = RelabelLines(content)]_vars

(***************************************************************************)
(* The number of lines of the text.                                        *)
(***************************************************************************)

\* The number of lines of t: one more than its line breaks.
NumLines(t) == Cardinality({q \in 1..Len(t) : t[q] = "\n"}) + 1

\* C12 as claimed: the text either script produces has at most as many lines
\* as the text it read.
C12_LineCountNeverGrows ==
    pc = "done" => NumLines(file) <= NumLines(original_content)

\* C12: no step of either script after the read adds a line to the text,
\* except Step 7 of simplify_go_file, which adds two lines to a text that
\* does not start with `package`; so aggressive_simplify produces at most as
\* many lines as it read and simplify_go_file at most two more.
C12_LinesAddedOnlyByHeader ==
    [][pc # "read" =>
          NumLines(content') <=
             NumLines(content)
               + (IF SimpAt("header") /\ ~StartsWith(content, Chars("package"))
                  THEN 2 ELSE 0)]_vars

\* simplify_go_file wrote a text two lines longer than the text it read.
C12_Witness ==
    /\ SimpAt("done") /\ returned = TRUE
    /\ NumLines(file) = NumLines(original_content) + 2
    /\ StartsWith(file, Chars("package intermediate\n\n"))

(***************************************************************************)
(* The order of the steps of aggressive_simplify.                          *)
(***************************************************************************)

\* The lines the line filter keeps of the lines of ls from index k on.
RECURSIVE KeptFrom(_, _)
KeptFrom(ls, k) ==
    IF k >= Len(ls) THEN <<>>
    ELSE LET line == ls[k + 1] IN
         IF OpensComment(line)
         THEN LET c == CollectComment(ls, <<line>>, k + 1) IN
              (IF KeepComment(c.comment_lines) THEN c.comment_lines ELSE <<>>)
                 \o KeptFrom(ls, c.i + 1)
         ELSE IF IsDecorative(line) \/ IsExampleLine(line) THEN KeptFrom(ls, k + 1)
         ELSE <<line>> \o KeptFrom(ls, k + 1)

\* The filter as a whole: the line filter, the collapse of blank runs, the
\* removal of box-drawing characters.
WholeFilter(t) ==
    Sub(BoxRe, "", Sub(BlankRunRe, "\n\n", Join(KeptFrom(Split(t), 0))))

\* The scanner: t up to the closing brace of main(), or t.
BlockScanner(t) ==
    IF Headers(t) # {} /\ ClosesAtDepth0(t) # {}
    THEN SubSeq(t, 1, Min(ClosesAtDepth0(t)))
    ELSE t

\* The rewrite of the package declaration, by the pattern of the code.
Rewrite(t) == Sub(PackageRe, "package intermediate", t)

\* C13 as claimed: the text aggressive_simplify writes is the text it read,
\* put through the whole filter, then the scanner, then the rewrite.
C13_FilterScannerRewrite ==
    AggAt("write") => content = Rewrite(BlockScanner(WholeFilter(original_content)))

(***************************************************************************)
(* main() of either script.                                                *)
(***************************************************************************)

\* The lines main() has printed about single files, in the order printed.
FileReports ==
    SelectSeq(printed, LAMBDA r : r.what \in {"improved", "updated", "skipped", "error"})

\* The files main() has come to so far, in the order it came to them: those
\* it has reported, and the one the function is running on.
Attempted ==
    [k \in 1..Len(FileReports) |-> FileReports[k].name]
       \o (IF mpc = "call" THEN <<file_path>> ELSE <<>>)

\* C14: main() comes to every file of the directory once, in sorted order,
\* whatever happened to the files before it: a file that cannot be read is
\* reported as an error, a file that can be read and written is reported as
\* processed, and main() always gets to its summary, having left no file out.
C14_EveryFileAttemptedOnce ==
    /\ [](mpc \in {"loop", "call", "exit"} =>
            /\ Attempted \o remaining = Sorted(DOMAIN dir)
            /\ \A k \in 1..Len(FileReports) :
                  LET r == FileReports[k] IN
                  /\ dir[r.name].mode = "none" => r.what = "error"
                  /\ dir[r.name].mode = "rw" => r.what # "error"
            /\ mpc = "exit" =>
                  /\ remaining = <<>>
                  /\ Len(FileReports) = Cardinality(DOMAIN dir)
                  /\ printed[Len(printed)].what = "complete")
    /\ <>(mpc = "exit")

\* main() has finished after a file that raised was followed by a file that
\* was processed.
C14_Witness ==
    /\ mpc = "exit"
    /\ \E j, k \in 1..Len(FileReports) :
          /\ j < k
          /\ FileReports[j].what = "error"
          /\ FileReports[k].what \in {"improved", "updated"}

(***************************************************************************)
(* The loops of aggressive_simplify come to an end.                        *)
(***************************************************************************)

\* No line of ls after line k holds the closing marker.
Unterminated(ls, k) == \A j \in (k + 1)..Len(ls) : ~Contains(ls[j], Chars("*/"))

\* C16: the filter loop and the scan are never stuck and never read past the
\* end: every iteration of the filter loop moves the line index up, every
\* iteration of the scan moves the position up by one or ends the scan, and
\* both loops end when the index reaches the end.  A comment block without a
\* closing marker takes the index past the last line, and the loop ends.
C16_LoopsAdvanceAndEnd ==
    /\ []((AggAt("filter") \/ AggAt("scan")) =>
            /\ ENABLED Next
            /\ i <= Len(lines) + 1
            /\ AggAt("scan") => pos <= Len(content))
    /\ [][/\ (AggAt("filter") /\ i < Len(lines)) => (pc' = "filter" /\ i' > i)
          /\ (AggAt("filter") /\ i >= Len(lines)) => pc' = "search"
          /\ (Filtering /\ OpensComment(Line) /\ Unterminated(lines, i + 1))
                => i' > Len(lines)
          /\ (AggAt("scan") /\ pos < Len(content))
                => \/ pc' = "scan" /\ pos' = pos + 1
                   \/ pc' = "collapse" /\ pos' = pos
          /\ (AggAt("scan") /\ pos >= Len(content)) => pc' = "collapse"]_vars

\* The filter has finished after a comment block without a closing marker
\* took the lines that were left after a line the filter kept.
C16_Witness ==
    /\ AggAt("search")
    /\ Len(lines) >= 3
    /\ ~OpensComment(lines[1]) /\ OpensComment(lines[2]) /\ Unterminated(lines, 2)
    /\ i = Len(lines) + 1
    /\ new_lines = <<lines[1]>>

====
